---- MODULE Spec2Model ----
(***************************************************************************)
(* A model of the sensorsio readers: the WorldClim 2.0 catalog             *)
(* (src/sensorsio/worldclim.py) and the Sentinel-2 L2A product reader      *)
(* (src/sensorsio/sentinel2.py).                                           *)
(*                                                                         *)
(* A behaviour is one session of a caller: it has constructed one reader   *)
(* object (Init) and then calls its methods one after the other.  Each     *)
(* action is one whole method call; what the call returns or raises is     *)
(* left in ret, the source files it opened in opened.                      *)
(*                                                                         *)
(* Coordinates are exact integers in units of half a source pixel, so the  *)
(* half-pixel shift of the base transform and every sub-pixel position of  *)
(* a bounding-box edge that matters to floor/ceil are representable.       *)
(* Python values: None is <<>>, an Optional value x is <<x>>; a path is    *)
(* the tuple of the pieces its f-string joins; a raised exception is a     *)
(* record with kind "raise".                                               *)
(***************************************************************************)
EXTENDS Integers, Sequences, FiniteSets, TLC

VARIABLES
  wc,       \* the WorldClimData object (NoObject when the session has none)
  s2,       \* the Sentinel2 object (NoObject when the session has none)
  missing,  \* backing store: the WorldClim files that do not exist
  listing,  \* backing store: the product directory, in os.scandir order
  corrupt,  \* backing store: product files that exist but cannot be decoded
  call,     \* the last call made: its name and arguments
  ret,      \* what the last call returned or raised
  opened,   \* the source files the last call opened, in order
  prev      \* None, or <<[ret, opened]>> of the call this one repeats

vars == <<wc, s2, missing, listing, corrupt, call, ret, opened, prev>>

\* ------------------------------------------------------------------ bounds

\* Width and height of the source raster, in pixels.
RasterW == 2
RasterH == 1
\* Longest list of variables or bands a caller passes.
MaxVars == 3
\* Largest destination resolution, in coordinate units.
MaxRes == 2
\* Most files in the product directory.
MaxFiles == 2
\* Largest month passed to the WorldClimVar constructor (smallest is -1).
MaxMonthInput == 13

\* ---------------------------------------------------------- Python values

None == <<>>
Some(x) == <<x>>

Ok(v) == [kind |-> "ok", value |-> v]
Raise(exc, what) == [kind |-> "raise", exc |-> exc, what |-> what]

NoObject == [cls |-> "NoneType"]

Min2(x, y) == IF x <= y THEN x ELSE y
Max2(x, y) == IF x >= y THEN x ELSE y

\* np.floor and np.ceil of the rational n/d.
floor(n, d) == IF d > 0 THEN n \div d ELSE (-n) \div (-d)

ceil_as_floor_plus_one(n, d) == floor(n, d) + 1

ceil(n, d) == -floor(-n, d)

\* f"{n:02}" for 0 <= n < 100: the two digits.
Fmt02(n) == <<n \div 10, n % 10>>

\* ------------------------------------------------------ worldclim.py: data

WorldClimQuantity == <<"prec", "srad", "tavg", "tmax", "tmin", "vapr", "wind">>

WorldClimBio ==
  << "Annual_Mean_Temp", "Mean_Diurnal_Temp_Range", "Isothermality",
     "Temp_Seasonality", "Max_Temp_Warmest_Month", "Min_Temp_Coldest_Month",
     "Temp_Annual_Range", "Mean_Temp_Wettest_Quart", "Mean_Temp_Driest_Quart",
     "Mean_Temp_Warmest_Quart", "Mean_Temp_Coldest_Quart", "Annual_Prec",
     "Prec_Wettest_Month", "Prec_Driest_Month", "Prec_Seasonality",
     "Prec_Wettest_Quart", "Prec_Driest_Quart", "Prec_Warmest_Quart",
     "Prec_Coldest_Quart" >>

\* An enumeration member: its class and its value.
Member(cls, v) == [cls |-> cls, value |-> v]

WorldClimQuantityAll ==
  [i \in 1..Len(WorldClimQuantity) |-> Member("WorldClimQuantity", WorldClimQuantity[i])]

WorldClimBioAll ==
  [i \in 1..Len(WorldClimBio) |-> Member("WorldClimBio", WorldClimBio[i])]

\* WorldClimVar.__init__: the object built, or ValueError.
WorldClimVar_accepts_any_month(var, month) ==
  IF month = None /\ var.cls = "WorldClimBio"
    THEN Ok([value |-> var.value, typ |-> "bio"])
  ELSE IF month # None /\ var.cls = "WorldClimQuantity"
    THEN Ok([value |-> var.value, typ |-> "clim", month |-> month[1]])
  ELSE Raise("ValueError", "Quantity needs month. Bio does not use month.")

WorldClimVar(var, month) ==
  IF month = None /\ var.cls = "WorldClimBio"
    THEN Ok([value |-> var.value, typ |-> "bio"])
  ELSE IF month # None /\ (1 <= month[1] /\ month[1] <= 12)
          /\ var.cls = "WorldClimQuantity"
    THEN Ok([value |-> var.value, typ |-> "clim", month |-> month[1]])
  ELSE Raise("ValueError", "Quantity needs month. Bio does not use month.")

\* [WorldClimVar(v, m) for v in WorldClimQuantityAll for m in range(1, 13)]
WorldClimQuantityVarAll ==
  [k \in 1..(Len(WorldClimQuantity) * 12) |->
     WorldClimVar(WorldClimQuantityAll[((k - 1) \div 12) + 1],
                  Some(((k - 1) % 12) + 1)).value]

WorldClimBioVarAll ==
  [k \in 1..Len(WorldClimBio) |-> WorldClimVar(WorldClimBioAll[k], None).value]

WorldClimVarAll == WorldClimQuantityVarAll \o WorldClimBioVarAll

\* ------------------------------------------------- worldclim.py: the catalog

Affine(a, b, c, d, e, f) == [a |-> a, b |-> b, c |-> c, d |-> d, e |-> e, f |-> f]

\* The transform stored in the first climate file: square pixels two units
\* wide, north up, the raster straddling the origin of the coordinates.
FileTransform == Affine(2, 0, -2, 0, -2, 2)

WcDir == "/datalake/static_aux/worldclim-2.0"

\* get_var_name: "bio_30s_03" or "30s_tavg_08", as the pieces joined by "_".
get_var_name(self, var) ==
  IF var.typ = "bio"
    THEN LET idx == CHOOSE i \in 1..Len(WorldClimBio) : WorldClimBio[i] = var.value
         IN  <<"bio", self.wcres>> \o Fmt02(idx)
    ELSE <<self.wcres, var.value>> \o Fmt02(var.month)

\* get_file_path: f"{self.wcdir}/{self.__wcprefix}_{var_name}.tif"
get_file_path(self, var) ==
  <<self.wcdir, self.wcprefix>> \o get_var_name(self, var) \o <<".tif">>

\* WorldClimData.__init__ (the first climate file exists and is opened).
WorldClimData(wcdir) ==
  LET self0 == [cls |-> "WorldClimData", wcdir |-> wcdir, wcprefix |-> "wc2.0",
                crs |-> "+proj=latlong", wcres |-> "30s"]
      nq == Len(WorldClimQuantity)
      climfiles ==
        [k \in 1..(12 * nq) |->
           get_file_path(self0, WorldClimVar(WorldClimQuantityAll[((k - 1) % nq) + 1],
                                             Some(((k - 1) \div nq) + 1)).value)]
      biofiles ==
        [k \in 1..Len(WorldClimBio) |->
           get_file_path(self0, WorldClimVar(WorldClimBioAll[k], None).value)]
      t == FileTransform
  IN  [cls |-> "WorldClimData", wcdir |-> wcdir, wcprefix |-> "wc2.0",
       crs |-> "+proj=latlong", wcres |-> "30s",
       climfiles |-> climfiles, biofiles |-> biofiles,
       transform |-> Affine(t.a, t.b, t.c - t.a \div 2, t.d, t.e, t.f - t.e \div 2)]

BoundingBox(left, bottom, right, top) ==
  [left |-> left, bottom |-> bottom, right |-> right, top |-> top]

\* rasterio.transform.rowcol for an axis-aligned transform: (rows, cols) of
\* the points (xs[i], ys[i]), each rounded by op.
rowcol(transform, xs, ys, op) ==
  LET rnd(n, d) == IF op = "floor" THEN floor(n, d) ELSE ceil(n, d)
  IN  << [i \in 1..Len(ys) |-> rnd(ys[i] - transform.f, transform.e)],
         [i \in 1..Len(xs) |-> rnd(xs[i] - transform.c, transform.a)] >>

\* The window of crop_to_bbox: ((top, bottom), (left, right)).
Window_floor_only(transform, bbox) ==
  LET f == rowcol(transform, <<bbox.left, bbox.right>>, <<bbox.top, bbox.bottom>>, "floor")
  IN  << <<Min2(f[1][1], f[1][2]), Max2(f[1][1], f[1][2])>>,
         <<Min2(f[2][1], f[2][2]), Max2(f[2][1], f[2][2])>> >>

Window(transform, bbox) ==
  LET f == rowcol(transform, <<bbox.left, bbox.right>>, <<bbox.top, bbox.bottom>>, "floor")
      c == rowcol(transform, <<bbox.left, bbox.right>>, <<bbox.top, bbox.bottom>>, "ceil")
      top_f == f[1][1]    bottom_f == f[1][2]
      left_f == f[2][1]   right_f == f[2][2]
      top_c == c[1][1]    bottom_c == c[1][2]
      left_c == c[2][1]   right_c == c[2][2]
      left == Min2(Min2(left_c, right_c), Min2(left_f, right_f))
      right == Max2(Max2(left_c, right_c), Max2(left_f, right_f))
      bottom == Max2(Max2(bottom_c, top_c), Max2(bottom_f, top_f))
      top == Min2(Min2(bottom_c, top_c), Min2(bottom_f, top_f))
  IN  << <<top, bottom>>, <<left, right>> >>

\* rio.open(imfile): the file must exist on the backing store.
rio_open(store, imfile) ==
  IF imfile \in store THEN Raise("RasterioIOError", imfile) ELSE Ok(imfile)

\* crop_to_bbox: the window is computed, then the file opened and read.
crop_to_bbox(self, store, imfile, bbox) ==
  LET window == Window(self.transform, bbox)
      ds == rio_open(store, imfile)
  IN  IF ds.kind = "raise" THEN ds
      ELSE Ok([file |-> imfile, bands |-> "all", window |-> window])

\* files = [self.get_file_path(v) for v in wc_vars]
ResolveFiles_deduplicated(self, wc_vars) ==
  LET all == [i \in 1..Len(wc_vars) |-> get_file_path(self, wc_vars[i])]
      first(i) == \A j \in 1..(i - 1) : all[j] # all[i]
      keep == {i \in 1..Len(all) : first(i)}
      nth(k) == CHOOSE i \in keep : Cardinality({j \in keep : j < i}) = k - 1
  IN  [k \in 1..Cardinality(keep) |-> all[nth(k)]]

ResolveFiles(self, wc_vars) ==
  [i \in 1..Len(wc_vars) |-> get_file_path(self, wc_vars[i])]

\* The index of the first crop that raised, 0 when none did.
FirstRaise(crops) ==
  IF \E i \in 1..Len(crops) : crops[i].kind = "raise"
    THEN CHOOSE i \in 1..Len(crops) :
           /\ crops[i].kind = "raise"
           /\ \A j \in 1..(i - 1) : crops[j].kind = "ok"
    ELSE 0

\* [crop(...)[0, :, :] for wc_file in files] then np.stack(wcvars, axis=0):
\* the first exception ends the comprehension; np.stack refuses no arrays.
StackCrops_skipping_failures(crops) ==
  LET good == SelectSeq(crops, LAMBDA r : r.kind = "ok")
  IN  IF Len(good) = 0 THEN Raise("ValueError", "need at least one array to stack")
      ELSE Ok([i \in 1..Len(good) |-> [good[i].value EXCEPT !.bands = 0]])

StackCrops(crops) ==
  LET k == FirstRaise(crops)
  IN  IF k # 0 THEN crops[k]
      ELSE IF Len(crops) = 0 THEN Raise("ValueError", "need at least one array to stack")
      ELSE Ok([i \in 1..Len(crops) |-> [crops[i].value EXCEPT !.bands = 0]])

\* The transform get_wc_for_bbox returns: the base pixel size at the box's corner.
CropTransform_base(self, bbox) == self.transform

CropTransform(self, bbox) ==
  Affine(self.transform.a, self.transform.b, bbox.left,
         self.transform.d, self.transform.e, bbox.top)

\* The catalog object as get_wc_for_bbox leaves it: the transform it builds is a local.
SelfAfterGetWc_stores_transform(self, bbox) ==
  [self EXCEPT !.transform = CropTransform(self, bbox)]

SelfAfterGetWc(self, bbox) == self

\* get_wc_for_bbox, once every file has been cropped: np.stack and the return.
Stacked(self, bbox, files, crops) ==
  LET k == FirstRaise(crops)
      stack == StackCrops(crops)
  IN  [ret |-> IF stack.kind = "raise" THEN stack
               ELSE Ok(<<stack.value, CropTransform(self, bbox)>>),
       self |-> IF k # 0 THEN self ELSE SelfAfterGetWc(self, bbox),
       opened |-> IF k # 0 THEN SubSeq(files, 1, k) ELSE files]

\* get_wc_for_bbox: [ret, self, opened].
get_wc_for_bbox(self, store, bbox, wc_vars) ==
  LET files == ResolveFiles(self, IF wc_vars = None THEN WorldClimVarAll ELSE wc_vars[1])
  IN  Stacked(self, bbox, files,
              [i \in 1..Len(files) |-> crop_to_bbox(self, store, files[i], bbox)])

\* utils.compute_latlon_bbox_from_region for a region already in the catalog's
\* own "+proj=latlong" CRS: the envelope of the region's corners.
compute_latlon_bbox_from_region(bounds, crs) ==
  BoundingBox(Min2(bounds.left, bounds.right), Min2(bounds.bottom, bounds.top),
              Max2(bounds.left, bounds.right), Max2(bounds.bottom, bounds.top))

\* np.linspace(start, stop, num) on rationals: start = startN/den, stop = stopN/den.
\* Element i (from 0) is start + i * (stop - start) / (num - 1), the last is stop.
linspace(startN, stopN, den, num) ==
  IF num <= 0 THEN <<>>
  ELSE IF num = 1 THEN <<[num |-> startN, den |-> den]>>
  ELSE [k \in 1..num |->
          [num |-> startN * (num - 1) + (k - 1) * (stopN - startN),
           den |-> den * (num - 1)]]

\* rasterio.warp.reproject into the zero array of the destination shape, then
\* astype(dtype): the resampled stack, described by what it was computed from.
reproject(source, shape, src_transform, src_crs, dst_transform, dst_crs, resampling) ==
  << [source |-> source, shape |-> shape, src_transform |-> src_transform,
      src_crs |-> src_crs, dst_transform |-> dst_transform, dst_crs |-> dst_crs,
      resampling |-> resampling],
     dst_transform >>

\* read_as_numpy, once get_wc_for_bbox has returned g: the reprojection onto
\* the destination grid and the coordinate vectors.  A coordinate is a
\* rational [num, den].
Resampled(self, crs, resolution, bounds, g) ==
  IF g.ret.kind = "raise" THEN g
  ELSE
    LET dst_transform == Affine(resolution, 0, bounds.left, 0, -resolution, bounds.top)
        dst_size_x == ceil(bounds.right - bounds.left, resolution)
        dst_size_y == ceil(bounds.top - bounds.bottom, resolution)
        r == reproject(g.ret.value[1], <<Len(g.ret.value[1]), dst_size_y, dst_size_x>>,
                       g.ret.value[2], self.crs, dst_transform, crs, "cubic")
        xcoords == linspace(2 * bounds.left + resolution, 2 * bounds.right - resolution,
                            2, dst_size_x)
        ycoords == linspace(2 * bounds.top - resolution, 2 * bounds.bottom + resolution,
                            2, dst_size_y)
    IN  [ret |-> Ok(<<[array |-> r[1], dtype |-> "float32"], xcoords, ycoords, crs, r[2]>>),
         self |-> g.self, opened |-> g.opened]

\* read_as_numpy: [ret, self, opened].
read_as_numpy(self, store, wc_vars, crs, resolution, bounds) ==
  IF bounds = None
    THEN [ret |-> Raise("AssertionError", "bounds is not None"),
          self |-> self, opened |-> <<>>]
  ELSE
    LET crs1 == IF crs = None THEN self.crs ELSE crs[1]
    IN  Resampled(self, crs1, resolution, bounds[1],
                  get_wc_for_bbox(self, store,
                                  compute_latlon_bbox_from_region(bounds[1], crs1),
                                  wc_vars))

\* ------------------------------------------------------------ sentinel2.py

Band == <<"B2", "B3", "B4", "B5", "B6", "B7", "B8", "B8A", "B9", "B10", "B11", "B12">>

Bands == {Band[i] : i \in 1..Len(Band)}

Mask == <<"SAT", "CLM", "EDG", "MG2">>

MaskRes == <<"R1", "R2">>

BandType == <<"FRE", "SRE">>

GROUP_10M == <<"B2", "B3", "B4", "B8">>
GROUP_20M == <<"B5", "B6", "B7", "B8A", "B11", "B12">>
GROUP_60M == <<"B9", "B10">>

\* The MTF table, in thousandths.
MTF ==
  "B2" :> 304 @@ "B3" :> 276 @@ "B4" :> 233 @@ "B5" :> 343 @@ "B6" :> 336 @@
  "B7" :> 338 @@ "B8" :> 222 @@ "B8A" :> 325 @@ "B9" :> 390 @@ "B11" :> 210 @@
  "B12" :> 190

RES ==
  "B2" :> 10 @@ "B3" :> 10 @@ "B4" :> 10 @@ "B5" :> 20 @@ "B6" :> 20 @@
  "B7" :> 20 @@ "B8" :> 10 @@ "B8A" :> 20 @@ "B9" :> 60 @@ "B11" :> 60 @@
  "B12" :> 60

ProductDir == "SENTINEL2A_20200101-105859-123_L2A_T31TCJ_C_V2-2"

\* A directory entry: the sub-directory it lies in ("." or "MASKS") and its
\* base name as the pieces before ".tif": a stem, then what follows it.
Entry(dir, name) == [dir |-> dir, name |-> name]

EndsWith(name, suffix) ==
  /\ Len(name) >= Len(suffix)
  /\ SubSeq(name, Len(name) - Len(suffix) + 1, Len(name)) = suffix

\* glob.glob(f"{product_dir}/{sub}/*{suffix}.tif"): the matching paths, in
\* the order the directory lists them.
glob(dirlist, product_dir, sub, suffix) ==
  LET hits == SelectSeq(dirlist, LAMBDA e : e.dir = sub /\ EndsWith(e.name, suffix))
  IN  [i \in 1..Len(hits) |-> <<product_dir, hits[i].dir>> \o hits[i].name]

\* build_band_path
build_band_path_last_match(self, dirlist, band, band_type) ==
  LET p == glob(dirlist, self.product_dir, ".", <<band_type, band>>)
  IN  IF Len(p) = 0
        THEN Raise("FileNotFoundError",
                   <<"band", band, "type", band_type, "dir", self.product_dir>>)
        ELSE Ok(p[Len(p)])

build_band_path(self, dirlist, band, band_type) ==
  LET p == glob(dirlist, self.product_dir, ".", <<band_type, band>>)
  IN  IF Len(p) = 0
        THEN Raise("FileNotFoundError",
                   <<"band", band, "type", band_type, "dir", self.product_dir>>)
        ELSE Ok(p[1])

\* build_mask_path
build_mask_path(self, dirlist, mask, resolution) ==
  LET p == glob(dirlist, self.product_dir, "MASKS", <<mask, resolution>>)
  IN  IF Len(p) = 0
        THEN Raise("FileNotFoundError",
                   <<"mask", mask, "resolution", resolution, "dir", self.product_dir>>)
        ELSE Ok(p[1])

\* utils.read_as_numpy(img_files, ..., separate=True): every file is opened and
\* decoded; an error of the raster library propagates.  The result is a tuple
\* whose first element is the stack, one layer per file.
utils_read_as_numpy(bad, img_files) ==
  IF \E i \in 1..Len(img_files) : img_files[i] \in bad
    THEN Raise("RasterioIOError",
               img_files[CHOOSE i \in 1..Len(img_files) :
                           /\ img_files[i] \in bad
                           /\ \A j \in 1..(i - 1) : img_files[j] \notin bad])
    ELSE Ok(<< [i \in 1..Len(img_files) |-> [file |-> img_files[i]]] >>)

\* [self.build_band_path(b, band_type) for b in bands]
BandPaths(self, dirlist, bands, band_type) ==
  LET rs == [i \in 1..Len(bands) |-> build_band_path(self, dirlist, bands[i], band_type)]
      k == FirstRaise(rs)
  IN  IF k # 0 THEN rs[k] ELSE Ok([i \in 1..Len(rs) |-> rs[i].value])

\* read_bands: [ret, self, opened].
read_bands(self, dirlist, bad, bands, band_type) ==
  LET img_files == BandPaths(self, dirlist, bands, band_type)
  IN  IF img_files.kind = "raise"
        THEN [ret |-> img_files, self |-> self, opened |-> <<>>]
      ELSE
        LET np_arr == utils_read_as_numpy(bad, img_files.value)
            k == IF np_arr.kind = "ok" THEN Len(img_files.value)
                 ELSE CHOOSE i \in 1..Len(img_files.value) :
                        img_files.value[i] = np_arr.what
        IN  [ret |-> IF np_arr.kind = "raise" THEN np_arr ELSE Ok(np_arr.value[1]),
             self |-> self,
             opened |-> SubSeq(img_files.value, 1, k)]

\* utils.generate_psf_kernel: the kernel, described by its parameters.
generate_psf_kernel(resolution, res, mtf, half_kernel_width) ==
  [resolution |-> resolution, res |-> res, mtf |-> mtf,
   half_kernel_width |-> half_kernel_width]

\* PSF: RES[b] and MTF[b] are dictionary look-ups; np.stack of the kernels.
PSF(self, bands, resolution, half_kernel_width) ==
  IF \E i \in 1..Len(bands) : bands[i] \notin DOMAIN RES \/ bands[i] \notin DOMAIN MTF
    THEN Raise("KeyError",
               bands[CHOOSE i \in 1..Len(bands) :
                       /\ bands[i] \notin DOMAIN RES \/ bands[i] \notin DOMAIN MTF
                       /\ \A j \in 1..(i - 1) :
                            bands[j] \in DOMAIN RES /\ bands[j] \in DOMAIN MTF])
  ELSE IF Len(bands) = 0 THEN Raise("ValueError", "need at least one array to stack")
  ELSE Ok([i \in 1..Len(bands) |->
             generate_psf_kernel(resolution, RES[bands[i]], MTF[bands[i]],
                                 half_kernel_width)])

\* Sentinel2.__init__ (build_band_path(B2) found a file, which was opened).
Sentinel2(product_dir, offsets) ==
  [cls |-> "Sentinel2", product_dir |-> product_dir, product_name |-> product_dir,
   offsets |-> offsets]

\* ------------------------------------------------------- the caller's inputs

PREC_01 == WorldClimVar(WorldClimQuantityAll[1], Some(1)).value
BIO_03 == WorldClimVar(WorldClimBioAll[3], None).value

\* The variables a caller asks for, and the lists of them (None: all variables).
VarPool == {PREC_01, BIO_03}

SeqsUpTo(S, lo, hi) == UNION {[1..n -> S] : n \in lo..hi}

VarLists == {None} \cup {Some(l) : l \in SeqsUpTo(VarPool, 0, MaxVars)}

\* The arguments tried on the WorldClimVar constructor.
VarInputs == {WorldClimQuantityAll[i] : i \in 1..Len(WorldClimQuantity)}
               \cup {WorldClimBioAll[i] : i \in 1..Len(WorldClimBio)}
MonthInputs == {None} \cup {Some(m) : m \in (-1)..MaxMonthInput}

\* The catalog as __init__ builds it, and the coordinate domain of the raster
\* under its base transform.
Constructed == WorldClimData(WcDir)
BaseTransform == Constructed.transform
DomainX == BaseTransform.c .. (BaseTransform.c + BaseTransform.a * RasterW)
DomainY == (BaseTransform.f + BaseTransform.e * RasterH) .. BaseTransform.f

\* Well-formed boxes inside the domain, and arbitrary boxes around it
\* (inverted, empty, reaching one unit outside).
BoxesIn ==
  {BoundingBox(l, b, r, t) : l \in DomainX, b \in DomainY, r \in DomainX, t \in DomainY}
    \cap {bb \in [left : DomainX, bottom : DomainY, right : DomainX, top : DomainY] :
            bb.left < bb.right /\ bb.bottom < bb.top}
AroundX == (BaseTransform.c - 1) .. (BaseTransform.c + BaseTransform.a * RasterW + 1)
AroundY == (BaseTransform.f + BaseTransform.e * RasterH - 1) .. (BaseTransform.f + 1)
BoxesAny == [left : AroundX, bottom : AroundY, right : AroundX, top : AroundY]

\* The WorldClim files that may be absent: all but the one __init__ opened.
MaybeMissing == {get_file_path(Constructed, BIO_03)}

\* The bands a caller asks for.
BandPool == {"B2", "B8A", "B10"}
BandLists == SeqsUpTo(BandPool, 1, MaxVars)

\* The files a product directory may hold.
F_B2_a == Entry(".", <<"S2A_a_", "FRE", "B2">>)
F_B2_b == Entry(".", <<"S2A_b_", "FRE", "B2">>)
F_B8A == Entry(".", <<"S2A_a_", "FRE", "B8A">>)
F_CLM == Entry("MASKS", <<"S2A_a_", "CLM", "R1">>)
F_CLM_root == Entry(".", <<"S2A_a_", "CLM", "R1">>)
ProductFiles == {F_B2_a, F_B2_b, F_B8A, F_CLM, F_CLM_root}

Range(f) == {f[i] : i \in DOMAIN f}

Listings ==
  {l \in SeqsUpTo(ProductFiles, 1, MaxFiles) :
     /\ \A i, j \in 1..Len(l) : i # j => l[i] # l[j]
     /\ build_band_path(Sentinel2(ProductDir, None), l, "B2", "FRE").kind = "ok"}

PathOf(e) == <<ProductDir, e.dir>> \o e.name

\* ------------------------------------------------------------- the session

Call(op, args) == [op |-> op, args |-> args]

WCOps == {"WorldClimVar", "crop_to_bbox", "get_wc_for_bbox", "read_as_numpy"}

\* What call c does: [ret, self, opened].
Exec(c) ==
  CASE c.op = "WorldClimVar" ->
         [ret |-> WorldClimVar(c.args.var, c.args.month), self |-> wc, opened |-> <<>>]
    [] c.op = "crop_to_bbox" ->
         [ret |-> crop_to_bbox(wc, missing, c.args.imfile, c.args.bbox),
          self |-> wc, opened |-> <<c.args.imfile>>]
    [] c.op = "get_wc_for_bbox" ->
         get_wc_for_bbox(wc, missing, c.args.bbox, c.args.wc_vars)
    [] c.op = "read_as_numpy" ->
         read_as_numpy(wc, missing, c.args.wc_vars, None, c.args.resolution,
                       c.args.bounds)
    [] c.op = "build_band_path" ->
         [ret |-> build_band_path(s2, listing, c.args.band, c.args.band_type),
          self |-> s2, opened |-> <<>>]
    [] c.op = "build_mask_path" ->
         [ret |-> build_mask_path(s2, listing, c.args.mask, c.args.resolution),
          self |-> s2, opened |-> <<>>]
    [] c.op = "read_bands" ->
         read_bands(s2, listing, corrupt, c.args.bands, c.args.band_type)
    [] c.op = "PSF" ->
         [ret |-> PSF(s2, c.args.bands, <<1, 2>>, None), self |-> s2, opened |-> <<>>]

\* The call c has returned r: the caller holds the result, the object is as
\* the method left it, the backing store as it was.
Returned(c, r) ==
  /\ call' = c
  /\ ret' = r.ret
  /\ opened' = r.opened
  /\ IF c.op \in WCOps THEN wc' = r.self /\ UNCHANGED s2
                       ELSE s2' = r.self /\ UNCHANGED wc
  /\ UNCHANGED <<missing, listing, corrupt>>

Apply(c) == Returned(c, Exec(c))

\* The caller holds no result: it has just built its reader, or has consumed
\* the result of its last call.  Calls are made one at a time.
Idle == call.op \in {"__init__", "idle"}

HasWC == Idle /\ wc.cls = "WorldClimData"
HasS2 == Idle /\ s2.cls = "Sentinel2"

NewWorldClimVar ==
  /\ HasWC
  /\ \E var \in VarInputs, month \in MonthInputs :
       Apply(Call("WorldClimVar", [var |-> var, month |-> month]))
  /\ prev' = None

CropToBbox ==
  /\ HasWC
  /\ \E v \in VarPool, bbox \in BoxesAny :
       Apply(Call("crop_to_bbox", [imfile |-> get_file_path(wc, v), bbox |-> bbox]))
  /\ prev' = None

GetWcForBbox ==
  /\ HasWC
  /\ \E bbox \in BoxesIn, wc_vars \in VarLists :
       Apply(Call("get_wc_for_bbox", [bbox |-> bbox, wc_vars |-> wc_vars]))
  /\ prev' = None

ReadAsNumpy ==
  /\ HasWC
  /\ \E bounds \in {None} \cup {Some(b) : b \in BoxesIn},
        wc_vars \in VarLists, resolution \in 1..MaxRes :
       Apply(Call("read_as_numpy",
                  [wc_vars |-> wc_vars, resolution |-> resolution, bounds |-> bounds]))
  /\ prev' = None

BuildBandPath ==
  /\ HasS2
  /\ \E band \in Bands, band_type \in Range(BandType) :
       Apply(Call("build_band_path", [band |-> band, band_type |-> band_type]))
  /\ prev' = None

BuildMaskPath ==
  /\ HasS2
  /\ \E mask \in Range(Mask), resolution \in Range(MaskRes) :
       Apply(Call("build_mask_path", [mask |-> mask, resolution |-> resolution]))
  /\ prev' = None

ReadBands ==
  /\ HasS2
  /\ \E bands \in BandLists, band_type \in Range(BandType) :
       Apply(Call("read_bands", [bands |-> bands, band_type |-> band_type]))
  /\ prev' = None

CallPSF ==
  /\ HasS2
  /\ \E bands \in SeqsUpTo(BandPool, 0, MaxVars) :
       Apply(Call("PSF", [bands |-> bands]))
  /\ prev' = None

\* The caller makes the call it has just made once more, with the same arguments.
Again ==
  /\ ~Idle
  /\ Apply(call)
  /\ prev' = Some([ret |-> ret, opened |-> opened])

\* The caller is done with the result; the request-scoped arrays are freed.
Consume ==
  /\ ~Idle
  /\ call' = Call("idle", <<>>)
  /\ ret' = Ok(None)
  /\ opened' = <<>>
  /\ prev' = None
  /\ UNCHANGED <<wc, s2, missing, listing, corrupt>>

InitWC ==
  /\ wc = Constructed
  /\ s2 = NoObject
  /\ missing \in SUBSET MaybeMissing
  /\ listing = <<>>
  /\ corrupt = {}
  /\ opened = <<wc.climfiles[1]>>

InitS2 ==
  /\ wc = NoObject
  /\ s2 = Sentinel2(ProductDir, None)
  /\ missing = {}
  /\ listing \in Listings
  /\ corrupt \in SUBSET ({PathOf(F_B8A)} \cap {PathOf(e) : e \in Range(listing)})
  /\ opened = <<build_band_path(s2, listing, "B2", "FRE").value>>

Init ==
  /\ InitWC \/ InitS2
  /\ call = Call("__init__", <<>>)
  /\ ret = Ok(None)
  /\ prev = None

Next ==
  \/ NewWorldClimVar
  \/ CropToBbox
  \/ GetWcForBbox
  \/ ReadAsNumpy
  \/ BuildBandPath
  \/ BuildMaskPath
  \/ ReadBands
  \/ CallPSF
  \/ Again
  \/ Consume

Spec == Init /\ [][Next]_vars

\* ------------------------------------------------------------- properties

Ordered(bbox) == bbox.left < bbox.right /\ bbox.bottom < bbox.top

InDomain(bbox) ==
  /\ bbox.left \in DomainX /\ bbox.right \in DomainX
  /\ bbox.bottom \in DomainY /\ bbox.top \in DomainY

\* The coordinates the base transform gives a column and a row boundary.
XOfCol(col) == wc.transform.c + wc.transform.a * col
YOfRow(row) == wc.transform.f + wc.transform.e * row
PixW == wc.transform.a
PixH == -wc.transform.e

OnColBoundary(x) == (x - wc.transform.c) % PixW = 0
OnRowBoundary(y) == (wc.transform.f - y) % PixH = 0

Done(op) == call.op = op /\ ret.kind = "ok"

\* C1: for a box with left < right and bottom < top inside the raster's
\* domain, the window crop_to_bbox reads, mapped back through the base
\* transform, covers the box, and passes each edge by at most one pixel.
C1_WindowContainsBox ==
  (Done("crop_to_bbox") /\ Ordered(call.args.bbox) /\ InDomain(call.args.bbox)) =>
    LET bbox == call.args.bbox
        top == ret.value.window[1][1]     bottom == ret.value.window[1][2]
        left == ret.value.window[2][1]    right == ret.value.window[2][2]
    IN  /\ XOfCol(left) <= bbox.left /\ bbox.left - XOfCol(left) <= PixW
        /\ XOfCol(right) >= bbox.right /\ XOfCol(right) - bbox.right <= PixW
        /\ YOfRow(top) >= bbox.top /\ YOfRow(top) - bbox.top <= PixH
        /\ YOfRow(bottom) <= bbox.bottom /\ bbox.bottom - YOfRow(bottom) <= PixH

\* A box inside the domain was cropped whose left, right and bottom edges are
\* inside a pixel: the window passes the box on those three edges.
C1_Witness ==
  /\ Done("crop_to_bbox") /\ Ordered(call.args.bbox) /\ InDomain(call.args.bbox)
  /\ ~OnColBoundary(call.args.bbox.left) /\ ~OnColBoundary(call.args.bbox.right)
  /\ ~OnRowBoundary(call.args.bbox.bottom)
  /\ XOfCol(ret.value.window[2][1]) < call.args.bbox.left
  /\ XOfCol(ret.value.window[2][2]) > call.args.bbox.right
  /\ YOfRow(ret.value.window[1][2]) < call.args.bbox.bottom

Aligned(bbox) ==
  /\ OnColBoundary(bbox.left) /\ OnColBoundary(bbox.right)
  /\ OnRowBoundary(bbox.top) /\ OnRowBoundary(bbox.bottom)

\* C2: for a box whose four edges lie on pixel boundaries, the floor and the
\* ceil candidates of crop_to_bbox agree on every edge and the window is
\* exactly the box: (top - bottom)/pixel_height rows, (right - left)/pixel_width
\* columns, no overshoot on any edge.
C2_AlignedBoxExact ==
  (Done("crop_to_bbox") /\ Ordered(call.args.bbox) /\ Aligned(call.args.bbox)) =>
    LET bbox == call.args.bbox
        top == ret.value.window[1][1]     bottom == ret.value.window[1][2]
        left == ret.value.window[2][1]    right == ret.value.window[2][2]
    IN  /\ rowcol(wc.transform, <<bbox.left, bbox.right>>, <<bbox.top, bbox.bottom>>, "floor")
             = rowcol(wc.transform, <<bbox.left, bbox.right>>, <<bbox.top, bbox.bottom>>, "ceil")
        /\ (bottom - top) * PixH = bbox.top - bbox.bottom
        /\ (right - left) * PixW = bbox.right - bbox.left
        /\ XOfCol(left) = bbox.left /\ XOfCol(right) = bbox.right
        /\ YOfRow(top) = bbox.top /\ YOfRow(bottom) = bbox.bottom

\* An aligned box of more than one pixel, inside the domain, was cropped.
C2_Witness ==
  /\ Done("crop_to_bbox") /\ Aligned(call.args.bbox) /\ InDomain(call.args.bbox)
  /\ call.args.bbox.right - call.args.bbox.left = 2 * PixW
  /\ call.args.bbox.top - call.args.bbox.bottom = PixH

\* The pairing of variable and month the constructor is meant to accept.
GoodPairing(var, month) ==
  \/ var.cls = "WorldClimBio" /\ month = None
  \/ var.cls = "WorldClimQuantity" /\ month # None /\ month[1] \in 1..12

WellFormedVar(v) ==
  /\ v.typ = "clim" => ("month" \in DOMAIN v /\ v.month \in 1..12)
  /\ v.typ = "bio" => "month" \notin DOMAIN v

\* C3: WorldClimVar(var, month) succeeds exactly for a bio with month None or
\* a quantity with a month in 1..12 and raises ValueError otherwise; a built
\* 'clim' variable has a month in 1..12, a built 'bio' variable has no month.
C3_VarConstruction ==
  /\ call.op = "WorldClimVar" =>
       /\ (ret.kind = "ok") <=> GoodPairing(call.args.var, call.args.month)
       /\ ret.kind = "raise" => ret.exc = "ValueError"
       /\ ret.kind = "ok" => (WellFormedVar(ret.value) /\ ret.value.typ \in {"clim", "bio"})
  /\ \A i \in 1..Len(WorldClimVarAll) : WellFormedVar(WorldClimVarAll[i])

\* A quantity with month 13 was refused.
C3_Witness ==
  /\ call.op = "WorldClimVar" /\ ret.kind = "raise"
  /\ call.args.var.cls = "WorldClimQuantity" /\ call.args.month = Some(13)

\* C4: get_wc_for_bbox on a non-empty list returns one layer per element, and
\* layer i is the crop of the file of the i-th variable (so [A, B, A] gives
\* three layers, the first and the third the same crop of A's file).
C4_OrderPreserved ==
  (Done("get_wc_for_bbox") /\ call.args.wc_vars # None /\ Len(call.args.wc_vars[1]) >= 1) =>
    LET vs == call.args.wc_vars[1]
        stack == ret.value[1]
    IN  /\ Len(stack) = Len(vs)
        /\ \A i \in 1..Len(vs) :
             /\ stack[i].file = get_file_path(wc, vs[i])
             /\ stack[i].window = Window(wc.transform, call.args.bbox)
             /\ stack[i].bands = 0
        /\ \A i, j \in 1..Len(vs) : vs[i] = vs[j] => stack[i] = stack[j]

\* [A, B, A] was read: three layers, the first and third alike, the second not.
C4_Witness ==
  /\ Done("get_wc_for_bbox") /\ call.args.wc_vars = Some(<<PREC_01, BIO_03, PREC_01>>)
  /\ Len(ret.value[1]) = 3
  /\ ret.value[1][1] = ret.value[1][3] /\ ret.value[1][1] # ret.value[1][2]

\* C5: read_as_numpy returns ceil((top - bottom)/resolution) rows and
\* ceil((right - left)/resolution) columns, and coordinate vectors that are
\* the pixel centres of the destination grid: x[i] = left + (i + 1/2) * resolution
\* and y[j] = top - (j + 1/2) * resolution, counting from 0.
C5_PixelCentreCoords ==
  (Done("read_as_numpy") /\ Ordered(call.args.bounds[1])) =>
    LET b == call.args.bounds[1]
        res == call.args.resolution
        shape == ret.value[1].array.shape
        xcoords == ret.value[2]
        ycoords == ret.value[3]
    IN  /\ shape[2] = ceil(b.top - b.bottom, res) /\ Len(ycoords) = shape[2]
        /\ shape[3] = ceil(b.right - b.left, res) /\ Len(xcoords) = shape[3]
        /\ \A i \in 1..Len(xcoords) :
             2 * xcoords[i].num = xcoords[i].den * (2 * b.left + (2 * i - 1) * res)
        /\ \A j \in 1..Len(ycoords) :
             2 * ycoords[j].num = ycoords[j].den * (2 * b.top - (2 * j - 1) * res)

\* C6: build_band_path and build_mask_path raise FileNotFoundError, naming the
\* band or mask, its type or resolution and the product directory, exactly
\* when the pattern matches no file; otherwise they return the first match,
\* also when several files match.
C6_NotFoundIffNoMatch ==
  /\ call.op = "build_band_path" =>
       LET p == glob(listing, s2.product_dir, ".", <<call.args.band_type, call.args.band>>)
       IN  /\ (ret.kind = "raise") <=> (Len(p) = 0)
           /\ ret.kind = "raise" =>
                /\ ret.exc = "FileNotFoundError"
                /\ {call.args.band, call.args.band_type, s2.product_dir} \subseteq Range(ret.what)
           /\ Len(p) >= 1 => ret = Ok(p[1])
  /\ call.op = "build_mask_path" =>
       LET p == glob(listing, s2.product_dir, "MASKS", <<call.args.mask, call.args.resolution>>)
       IN  /\ (ret.kind = "raise") <=> (Len(p) = 0)
           /\ ret.kind = "raise" =>
                /\ ret.exc = "FileNotFoundError"
                /\ {call.args.mask, call.args.resolution, s2.product_dir} \subseteq Range(ret.what)
           /\ Len(p) >= 1 => ret = Ok(p[1])

\* Two files matched the band's pattern and the first listed was returned.
C6_Witness ==
  /\ Done("build_band_path")
  /\ Len(glob(listing, s2.product_dir, ".", <<call.args.band_type, call.args.band>>)) = 2
  /\ ret.value = PathOf(listing[1])

\* The requested variables' files, in order, and whether one is absent.
RequestedFiles ==
  LET vs == IF call.args.wc_vars = None THEN WorldClimVarAll ELSE call.args.wc_vars[1]
  IN  [i \in 1..Len(vs) |-> get_file_path(wc, vs[i])]

\* Whether band b of the last read_bands call cannot be resolved or decoded.
BandFails(b) ==
  LET p == build_band_path(s2, listing, b, call.args.band_type)
  IN  p.kind = "raise" \/ p.value \in corrupt

\* C7: a multi-variable read is all-or-nothing.  If the file of any requested
\* variable or band, at any position, cannot be resolved or read, read_bands,
\* get_wc_for_bbox and read_as_numpy raise that error and return no array; a
\* call that returns holds one layer for every requested element.
C7_AllOrNothing ==
  /\ (call.op = "get_wc_for_bbox" \/ (call.op = "read_as_numpy" /\ call.args.bounds # None)) =>
       LET files == RequestedFiles
           n == IF call.op = "get_wc_for_bbox" THEN Len(ret.value[1])
                ELSE ret.value[1].array.shape[1]
       IN  /\ (\E i \in 1..Len(files) : files[i] \in missing) =>
                /\ ret.kind = "raise" /\ "value" \notin DOMAIN ret
                /\ ret.exc = "RasterioIOError"
                /\ ret.what \in missing /\ ret.what \in Range(files)
           /\ ret.kind = "ok" => n = Len(files)
  /\ call.op = "read_bands" =>
       /\ (\E i \in 1..Len(call.args.bands) : BandFails(call.args.bands[i])) =>
            /\ ret.kind = "raise" /\ "value" \notin DOMAIN ret
            /\ ret.exc \in {"FileNotFoundError", "RasterioIOError"}
       /\ ret.kind = "ok" => Len(ret.value) = Len(call.args.bands)

\* A read whose last variable's file is absent, after two that exist, raised.
C7_Witness ==
  /\ call.op = "get_wc_for_bbox" /\ ret.kind = "raise"
  /\ call.args.wc_vars = Some(<<PREC_01, PREC_01, BIO_03>>)
  /\ Len(opened) = 3

WCReads == {"crop_to_bbox", "get_wc_for_bbox", "read_as_numpy"}

\* C8: reads leave the catalog as __init__ built it, a read repeated with the
\* same arguments on the same store returns the same result, and every read
\* opens its source files anew: one open per requested variable.
C8_ReadsIdempotent ==
  /\ wc.cls = "WorldClimData" => wc = Constructed
  /\ (call.op \in WCReads /\ prev # None) =>
       (ret = prev[1].ret /\ opened = prev[1].opened)
  /\ (call.op \in {"get_wc_for_bbox", "read_as_numpy"} /\ ret.kind = "ok") =>
       opened = RequestedFiles

\* A successful two-variable read was repeated and opened both files again.
C8_Witness ==
  /\ Done("read_as_numpy") /\ prev # None
  /\ call.args.wc_vars = Some(<<BIO_03, PREC_01>>)
  /\ Len(opened) = 2

Abs(x) == IF x < 0 THEN -x ELSE x

\* C9: for a box with left < right and bottom < top inside the domain, the
\* transform get_wc_for_bbox returns has the base pixel size and its origin at
\* (bbox.left, bbox.top); that origin is less than one pixel, in each axis,
\* from where the base transform puts the first column and row of the window
\* read, and equal to it when the left and top edges are on pixel boundaries.
C9_ReturnedOrigin ==
  (Done("get_wc_for_bbox") /\ Len(ret.value[1]) >= 1
     /\ Ordered(call.args.bbox) /\ InDomain(call.args.bbox)) =>
    LET bbox == call.args.bbox
        t == ret.value[2]
        top == ret.value[1][1].window[1][1]
        left == ret.value[1][1].window[2][1]
    IN  /\ t.a = wc.transform.a /\ t.e = wc.transform.e
        /\ t.b = wc.transform.b /\ t.d = wc.transform.d
        /\ t.c = bbox.left /\ t.f = bbox.top
        /\ Abs(t.c - XOfCol(left)) < PixW
        /\ Abs(t.f - YOfRow(top)) < PixH
        /\ (OnColBoundary(bbox.left) /\ OnRowBoundary(bbox.top)) =>
             (t.c = XOfCol(left) /\ t.f = YOfRow(top))

\* A box whose left and top edges are inside a pixel was read: the returned
\* origin and the window's origin differ in both axes.
C9_Witness ==
  /\ Done("get_wc_for_bbox") /\ Len(ret.value[1]) >= 1
  /\ Ordered(call.args.bbox) /\ InDomain(call.args.bbox)
  /\ ret.value[2].c # XOfCol(ret.value[1][1].window[2][1])
  /\ ret.value[2].f # YOfRow(ret.value[1][1].window[1][1])

InGroup(b, group) == \E i \in 1..Len(group) : group[i] = b

\* C10: every band has an entry in RES and in MTF, so PSF succeeds for any
\* list of bands, and RES gives 10 to the bands of GROUP_10M, 20 to those of
\* GROUP_20M and 60 to those of GROUP_60M.
C10_TablesTotalAndConsistent ==
  /\ \A b \in Bands :
       /\ b \in DOMAIN RES /\ b \in DOMAIN MTF
       /\ InGroup(b, GROUP_10M) => RES[b] = 10
       /\ InGroup(b, GROUP_20M) => RES[b] = 20
       /\ InGroup(b, GROUP_60M) => RES[b] = 60
  /\ (call.op = "PSF" /\ Len(call.args.bands) >= 1) => ret.kind = "ok"

====
